---------------------------- MODULE Spec2Model ----------------------------
(***************************************************************************)
(* The two index builders of the CDN repository:                           *)
(*   scripts/build-game-asset-index.js  (buildImageIndexes, "game")        *)
(*   scripts/generate-image-index.js    (generateIndex, "user")            *)
(* A behaviour fixes one directory tree, then runs one of the builders     *)
(* twice in succession against it.                                         *)
(*                                                                         *)
(* Encoding of JavaScript values:                                          *)
(*   undefined / a missing JSON field      Undefined (0, falsy)            *)
(*   a date string that does not parse     InvalidDate (its time is NaN)   *)
(*   a date string that parses             its time value, an integer >= 1 *)
(*   null path, absent dimensions          the empty tuple <<>>            *)
(*   a dimension pair {width, height}      <<width, height>>               *)
(*   a path string                         the tuple of its segments       *)
(* Entry fields that are copies of sidecar fields with a constant default  *)
(* (filename, name, description, tags, uploadedBy) and the keywords list,  *)
(* a pure function of filename, category and path, are not carried.        *)
(***************************************************************************)
EXTENDS Integers, Sequences, FiniteSets, TLC

\* ------------------------------------------------------------------ bounds
\* Latest reading of the wall clock (new Date()) in a behaviour.
MaxClock == 2
\* Upload dates carried by sidecars are 1..MaxDate.
MaxDate == 2

\* ------------------------------------------------------- JavaScript values
Undefined == 0
InvalidDate == -1

\* a || b on the encoded values: Undefined is the falsy one
Or(a, b) == IF a = Undefined THEN b ELSE a

\* new Date(v).getTime(): NaN for a string that does not parse
IsNaN(v) == v = InvalidDate

\* ================================================================ game-asset
\* The scan root (CDN_DIR) and what may lie under it.  A path is the tuple
\* of its segments relative to CDN_DIR.
CDN_DIR == <<>>

GameDirs == { <<>>, <<"icons">>, <<"spirits">>, <<"spirits", "rare">> }

GameFiles == { <<"fire.png">>, <<"icons", "logo.SVG">>, <<"icons", "notes.txt">>,
               <<"spirits", "rare", "pic.jpg">> }

\* fs.readdir(dir): the names in a directory, in listing order
Listing(dir) ==
  CASE dir = <<>>                   -> <<"fire.png", "icons", "spirits">>
    [] dir = <<"icons">>            -> <<"logo.SVG", "notes.txt">>
    [] dir = <<"spirits">>          -> <<"rare">>
    [] dir = <<"spirits", "rare">>  -> <<"pic.jpg">>

\* path.extname(name)
ExtName(name) ==
  CASE name = "fire.png"  -> ".png"
    [] name = "logo.SVG"  -> ".SVG"
    [] name = "notes.txt" -> ".txt"
    [] name = "pic.jpg"   -> ".jpg"
    [] OTHER              -> ""

\* String.prototype.toLowerCase on the extensions that occur
ToLowerCase(ext) == IF ext = ".SVG" THEN ".svg" ELSE ext

ImageExts == { ".jpg", ".jpeg", ".png", ".webp", ".gif", ".svg" }

\* path.basename(fullPath)
Basename(p) == p[Len(p)]

\* stats.size and stats.mtime of a file: fixed by the tree
StatSize(p) == 10 * Len(p) + 1
StatMtime(p) == Len(p)

\* What sharp(fullPath).metadata() does for a file: throws, or resolves to
\* a metadata object whose width/height may be missing (0 here)
SharpOutcomes == { <<"throw">>, <<"ok", 0, 0>>, <<"ok", 0, 2>>, <<"ok", 3, 0>>, <<"ok", 3, 2>> }

VARIABLES
  builder,        \* "game" or "user": which script the behaviour runs
  run,            \* 1 or 2: the invocation in progress
  pc,             \* position of the running script
  exitCode,       \* -1 while running, else the process exit code
  clock,          \* last reading of the wall clock
  cdnExists,      \* game: fs.access(CDN_DIR) succeeds
  unreadable,     \* game: directories whose readdir throws
  fileStat,       \* game: per file "absent", "statfail" (fs.stat throws) or "ok"
  sharpOf,        \* per image file: the outcome of sharp(file).metadata()
  outDirExists,   \* the directory of the output path exists
  indexFile,      \* the output file: <<>> (no file) or <<document>>
  imageFiles,     \* game: result of the scan
  metadataFiles,  \* user: result of the glob
  sidecars,       \* user: content of each sidecar file
  siblings,       \* user: per sidecar, the extensions ext with <id>.<ext> present
  sortPerm,       \* user: the order this runtime's sort gives under an inconsistent comparator
  idx,            \* next position of the per-item loop
  images,
  processed,
  skipped,        \* game: failed items
  errors,         \* user: failed items
  written,        \* whether this run wrote the index
  atStart,        \* <<outDirExists, indexFile>> as this run found them
  firstRun        \* <<>>, or what the first run left: <<[exitCode, written, index]>>

\* the directory tree and the runtime: no script changes them
tree == <<builder, cdnExists, unreadable, fileStat, sharpOf, sidecars, siblings, sortPerm>>
vars == <<builder, run, pc, exitCode, clock, cdnExists, unreadable, fileStat, sharpOf,
          outDirExists, indexFile, imageFiles, metadataFiles, sidecars, siblings, sortPerm,
          idx, images, processed, skipped, errors, written, atStart, firstRun>>

\* ------------------------------------------------- getImagesInDirectory
RECURSIVE getImagesInDirectory(_), ScanEntries(_, _)

\* lines 49-63: the loop over the entries of one directory, from entry k
ScanEntries(dir, k) ==
  IF k > Len(Listing(dir)) THEN <<>>
  ELSE LET name == Listing(dir)[k]
           fullPath == Append(dir, name)
           found ==
             IF fullPath \in GameDirs
               THEN getImagesInDirectory(fullPath)
             ELSE IF fullPath \in GameFiles /\ fileStat[fullPath] # "absent"
               THEN IF ToLowerCase(ExtName(name)) \in ImageExts
                      THEN <<fullPath>> ELSE <<>>
             ELSE <<>>
       IN found \o ScanEntries(dir, k + 1)

\* a variant whose only try/catch is around the outermost call: the error of
\* an unreadable directory below dir discards what the scan of dir found
getImagesInDirectoryOuterCatch(dir) ==
  IF \E d \in unreadable : Len(d) >= Len(dir) /\ SubSeq(d, 1, Len(dir)) = dir
    THEN <<>> ELSE ScanEntries(dir, 1)

\* readdir throws before anything is pushed: the catch returns the empty list
getImagesInDirectory(dir) ==
  IF dir \in unreadable THEN <<>> ELSE ScanEntries(dir, 1)

\* ---------------------------------------------------- getImageDimensions
\* a variant that hands svg files to the decoder like any other file
getImageDimensionsNoSvgSkip(fullPath) ==
  LET m == sharpOf[fullPath]
  IN IF m[1] = "throw" THEN <<>>
     ELSE IF m[2] # 0 /\ m[3] # 0 THEN <<m[2], m[3]>>
     ELSE <<>>

\* null is <<>>
getImageDimensions(fullPath) ==
  LET ext == ToLowerCase(ExtName(Basename(fullPath)))
      m == sharpOf[fullPath]
  IN IF ext = ".svg" THEN <<>>
     ELSE IF m[1] = "throw" THEN <<>>
     ELSE IF m[2] # 0 /\ m[3] # 0 THEN <<m[2], m[3]>>
     ELSE <<>>

\* path.relative(CDN_DIR, fullPath): fullPath lies under CDN_DIR
Relative(root, fullPath) == SubSeq(fullPath, Len(root) + 1, Len(fullPath))

\* relativeToCdn.split(/[/\\]/)[0] || 'uncategorized'
CategoryOf(relativeToCdn) ==
  LET first == relativeToCdn[1]
  IN IF first = "" THEN "uncategorized" ELSE first

\* function extractCategory (unused by the loop, same result)
extractCategory(relativePath) ==
  LET pathParts == SelectSeq(relativePath, LAMBDA p : p # "")
  IN IF pathParts = <<>> THEN "uncategorized" ELSE pathParts[1]

\* lines 186-218: the entry built for one file whose stat succeeded
GameEntry(fullPath) ==
  LET relativeToCdn == Relative(CDN_DIR, fullPath)
  IN [ path         |-> relativeToCdn,
       filename     |-> Basename(fullPath),
       category     |-> CategoryOf(relativeToCdn),
       filesize     |-> StatSize(fullPath),
       lastModified |-> StatMtime(fullPath),
       dimensions   |-> getImageDimensions(fullPath) ]

\* a variant that counts the files found instead of the entries kept
GameIndexCountsFiles(imgs, now) ==
  [ version |-> "1.0", path |-> "/images", totalImages |-> Len(imageFiles),
    generatedAt |-> now, images |-> imgs ]

\* lines 242-248
GameIndex(imgs, now) ==
  [ version |-> "1.0", path |-> "/images", totalImages |-> Len(imgs),
    generatedAt |-> now, images |-> imgs ]

\* an index file left by an earlier invocation
StaleGameIndex ==
  [ version |-> "1.0", path |-> "/images", totalImages |-> 0,
    generatedAt |-> 0, images |-> <<>> ]


\* ============================================================== user-content
\* A sidecar <dir>/<id>-metadata.json under BASE_PATH is the tuple of its
\* directory segments followed by its id.
SidecarFiles == { <<"abc">>, <<"sub", "abc">>, <<"xyz">> }

\* glob.sync(`${BASE_PATH}/**/*-metadata.json`): the order of its matches
GlobOrder == << <<"abc">>, <<"sub", "abc">>, <<"xyz">> >>

\* path.basename(metaFile, '-metadata.json')
ImageId(metaFile) == metaFile[Len(metaFile)]

\* the order in which glob lists the files <id>.{jpg,jpeg,png,gif,webp} of a directory
ExtOrder == <<"webp", "jpg">>

\* fs.statSync(originalFile).size
UserSize(file) == 100 + Len(file)

\* The content of a sidecar file.  "malformed": reading or JSON.parse throws;
\* "null": the text is the JSON literal null; "object": a metadata object.
\* A missing category is "", a missing date Undefined, missing dimensions <<>>,
\* and a missing width or height inside dimensions is 0.
NoSidecar  == [kind |-> "absent", category |-> "", uploadDate |-> Undefined,
               uploadedAt |-> Undefined, dimensions |-> <<>>]
Malformed  == [NoSidecar EXCEPT !.kind = "malformed"]
NullJson   == [NoSidecar EXCEPT !.kind = "null"]
MetaObject(c, dp, d) ==
  [kind |-> "object", category |-> c, uploadDate |-> dp[1], uploadedAt |-> dp[2],
   dimensions |-> d]

DatePairs == { <<Undefined, Undefined>>, <<InvalidDate, Undefined>>, <<Undefined, MaxDate>> }
             \cup { <<d, Undefined>> : d \in 1..MaxDate }

\* The sidecar trees a behaviour may start from.  The files beside the sidecar
\* and what it says about dimensions vary for xyz; the two sidecars called abc
\* lie in different directories.
SidecarChoices(s) ==
  CASE s = <<"abc">> ->
         { NoSidecar, Malformed, NullJson }
         \cup { MetaObject(c, dp, <<4, 5>>) : c \in {"", "icons"}, dp \in DatePairs }
    [] s = <<"sub", "abc">> ->
         { NoSidecar }
         \cup { MetaObject(c, <<1, Undefined>>, <<4, 5>>) : c \in {"", "icons"} }
    [] s = <<"xyz">> ->
         { NoSidecar, Malformed, NullJson }
         \cup { MetaObject(c, dp, d) : c \in {"", "icons"}, dp \in DatePairs,
                                       d \in { <<>>, <<0, 5>>, <<4, 5>> } }

SiblingChoices(s) == IF s = <<"xyz">> THEN SUBSET {"webp", "jpg"} ELSE { {"jpg"} }

UserSharpChoices(s) == IF s = <<"xyz">> THEN { <<"throw">>, <<"ok", 3, 2>> } ELSE { <<"ok", 3, 2>> }

\* !metadata.dimensions || !metadata.dimensions.width || !metadata.dimensions.height
DimensionsMissing(d) == d = <<>> \/ d[1] = 0 \/ d[2] = 0

\* glob.sync(`${dir}/${imageId}.{jpg,jpeg,png,gif,webp}`)
OriginalFiles(metaFile) ==
  LET here == SelectSeq(ExtOrder, LAMBDA e : e \in siblings[metaFile])
  IN [i \in 1..Len(here) |-> Append(metaFile, here[i])]

IsWebp(file) == file[Len(file)] = "webp"

\* a variant that takes the first match whatever its extension
OriginalFileFirstMatch(metaFile) ==
  LET originalFiles == OriginalFiles(metaFile)
  IN IF originalFiles # <<>> THEN originalFiles[1] ELSE <<>>

\* originalFiles.find(f => !f.endsWith('.webp')) || originalFiles[0]; undefined is <<>>
OriginalFile(metaFile) ==
  LET originalFiles == OriginalFiles(metaFile)
      nonWebp == SelectSeq(originalFiles, LAMBDA f : ~IsWebp(f))
  IN IF nonWebp # <<>> THEN nonWebp[1]
     ELSE IF originalFiles # <<>> THEN originalFiles[1]
     ELSE <<>>

\* path.join(dir, `${imageId}.webp`)
WebpFile(metaFile) == Append(metaFile, "webp")

\* fs.existsSync(file) for a file <id>.<ext> beside the sidecar
ExistsSync(metaFile, file) == file # <<>> /\ file[Len(file)] \in siblings[metaFile]

\* lines 57-76: the dimensions after the lazy decode
ResolvedDimensions(metaFile) ==
  LET metadata == sidecars[metaFile]
      originalFile == OriginalFile(metaFile)
      imgFile == IF originalFile # <<>> THEN originalFile ELSE WebpFile(metaFile)
      m == sharpOf[metaFile]
  IN IF ~DimensionsMissing(metadata.dimensions) THEN metadata.dimensions
     ELSE IF ExistsSync(metaFile, imgFile)
       THEN IF m[1] = "throw" THEN <<0, 0>> ELSE <<m[2], m[3]>>
     ELSE <<0, 0>>

\* a || b on strings: "" is the falsy one
OrStr(a, b) == IF a = "" THEN b ELSE a

\* lines 79-93: the entry built from a sidecar that holds a metadata object
UserEntry(metaFile, now) ==
  LET metadata == sidecars[metaFile]
      originalFile == OriginalFile(metaFile)
      webpFile == WebpFile(metaFile)
  IN [ id         |-> ImageId(metaFile),
       path       |-> originalFile,
       webpPath   |-> IF ExistsSync(metaFile, webpFile) THEN webpFile ELSE <<>>,
       category   |-> OrStr(metadata.category, "other"),
       dimensions |-> ResolvedDimensions(metaFile),
       filesize   |-> IF originalFile # <<>> /\ ExistsSync(metaFile, originalFile)
                        THEN UserSize(originalFile) ELSE 0,
       uploadDate |-> Or(Or(metadata.uploadDate, metadata.uploadedAt), now),
       format     |-> IF originalFile # <<>> THEN originalFile[Len(originalFile)]
                      ELSE "unknown" ]

\* whether the loop body throws for this sidecar: the read or the parse fails,
\* or the parsed value is null and metadata.dimensions is a TypeError
BodyThrows(metaFile) == sidecars[metaFile].kind # "object"

\* --------------------------------------------------------------- the sort
\* (a, b) => new Date(b.uploadDate) - new Date(a.uploadDate); a NaN result
\* is read as +0 by Array.prototype.sort
Compare(a, b) ==
  IF IsNaN(a.uploadDate) \/ IsNaN(b.uploadDate) THEN 0 ELSE b.uploadDate - a.uploadDate

\* the comparator is a consistent comparator for the elements of s
Consistent(s) ==
  \A i, j, k \in 1..Len(s) :
     /\ (Compare(s[i], s[j]) = 0 /\ Compare(s[j], s[k]) = 0) => Compare(s[i], s[k]) = 0
     /\ (Compare(s[i], s[j]) < 0 /\ Compare(s[j], s[k]) < 0) => Compare(s[i], s[k]) < 0
     /\ (Compare(s[i], s[j]) < 0 /\ Compare(s[j], s[k]) = 0) => Compare(s[i], s[k]) < 0
     /\ (Compare(s[i], s[j]) = 0 /\ Compare(s[j], s[k]) < 0) => Compare(s[i], s[k]) < 0

\* x placed after every element of the sorted list t that does not sort after it
InsertSorted(t, x) ==
  LET after == { i \in 1..Len(t) : Compare(t[i], x) > 0 }
      pos == IF after = {} THEN Len(t) + 1 ELSE CHOOSE i \in after : \A j \in after : i <= j
  IN SubSeq(t, 1, pos - 1) \o <<x>> \o SubSeq(t, pos, Len(t))

RECURSIVE StableSortFrom(_, _, _)
StableSortFrom(s, k, t) ==
  IF k > Len(s) THEN t ELSE StableSortFrom(s, k + 1, InsertSorted(t, s[k]))

\* images.sort(...): the stable sort when the comparator is consistent;
\* otherwise the order is implementation-defined, and perm is the order
\* this runtime gives
SortImages(s, perm) ==
  IF Consistent(s) THEN StableSortFrom(s, 1, <<>>)
  ELSE IF Len(s) = Len(perm) THEN [i \in 1..Len(s) |-> s[perm[i]]]
  ELSE s

\* lines 111-117: images.reduce into the category buckets, from entry k
RECURSIVE ReduceByCategory(_, _, _)
ReduceByCategory(imgs, k, acc) ==
  IF k > Len(imgs) THEN acc
  ELSE LET img == imgs[k]
           acc1 == IF img.category \notin DOMAIN acc
                     THEN [c \in (DOMAIN acc) \cup {img.category} |->
                              IF c \in DOMAIN acc THEN acc[c] ELSE <<>>]
                     ELSE acc
           acc2 == [acc1 EXCEPT ![img.category] = Append(@, img.id)]
       IN ReduceByCategory(imgs, k + 1, acc2)

EmptyMap == [c \in {} |-> <<>>]

ByCategory(imgs) == ReduceByCategory(imgs, 1, EmptyMap)

\* lines 120-126, and lines 28-34 for the empty index
UserIndex(imgs, byCat, now) ==
  [ version |-> "1.0", totalImages |-> Len(imgs), generatedDate |-> now,
    images |-> imgs, byCategory |-> byCat ]

EmptyIndex(now) ==
  [ version |-> "1.0", totalImages |-> 0, generatedDate |-> now,
    images |-> <<>>, byCategory |-> EmptyMap ]


\* ================================================================== Init
Identity == [i \in 1..Cardinality(SidecarFiles) |-> i]

RunStart ==
  /\ run = 1 /\ pc = "start" /\ exitCode = -1 /\ clock = 1
  /\ imageFiles = <<>> /\ metadataFiles = <<>> /\ idx = 1 /\ images = <<>>
  /\ processed = 0 /\ skipped = 0 /\ errors = 0 /\ written = FALSE /\ firstRun = <<>>
  /\ atStart = <<outDirExists, indexFile>>

\* per game file: <<stat, sharp outcome>>
GameFileChoices(f) ==
  IF ToLowerCase(ExtName(Basename(f))) \in ImageExts
    THEN { <<"absent", <<"throw">> >>, <<"statfail", <<"throw">> >> }
         \cup { <<"ok", m>> : m \in SharpOutcomes }
    ELSE { <<"absent", <<"throw">> >>, <<"ok", <<"throw">> >> }

InitGame ==
  /\ builder = "game"
  /\ cdnExists \in BOOLEAN
  /\ unreadable \in SUBSET GameDirs
  /\ \E k \in [GameFiles -> UNION { GameFileChoices(f) : f \in GameFiles }] :
        /\ \A f \in GameFiles : k[f] \in GameFileChoices(f)
        /\ fileStat = [f \in GameFiles |-> k[f][1]]
        /\ sharpOf = [f \in GameFiles |-> k[f][2]]
  /\ ~cdnExists => (unreadable = {} /\ \A f \in GameFiles : fileStat[f] = "absent")
  \* OUTPUT_DIR may be CDN_DIR or another directory (--output-dir)
  /\ \E out \in { <<FALSE, <<>> >>, <<TRUE, <<>> >>, <<TRUE, <<StaleGameIndex>> >> } :
        outDirExists = out[1] /\ indexFile = out[2]
  /\ sidecars = [s \in SidecarFiles |-> NoSidecar]
  /\ siblings = [s \in SidecarFiles |-> {}]
  /\ sortPerm = Identity
  /\ RunStart

InitUser ==
  /\ builder = "user"
  /\ cdnExists = FALSE /\ unreadable = {}
  /\ fileStat = [f \in GameFiles |-> "absent"]
  /\ \E a \in SidecarChoices(<<"abc">>), b \in SidecarChoices(<<"sub", "abc">>),
        x \in SidecarChoices(<<"xyz">>) :
        sidecars = (<<"abc">> :> a) @@ (<<"sub", "abc">> :> b) @@ (<<"xyz">> :> x)
  /\ siblings \in [SidecarFiles -> SUBSET {"webp", "jpg"}]
  /\ sharpOf \in [SidecarFiles -> { <<"throw">>, <<"ok", 3, 2>> }]
  /\ \A s \in SidecarFiles :
        /\ siblings[s] \in SiblingChoices(s)
        /\ sharpOf[s] \in UserSharpChoices(s)
        \* files and decode outcomes that no step reads are left at one value
        /\ sidecars[s].kind # "object" => siblings[s] = CHOOSE c \in SiblingChoices(s) : TRUE
        /\ (sidecars[s].kind # "object" \/ ~DimensionsMissing(sidecars[s].dimensions)
              \/ siblings[s] = {}) => sharpOf[s] = <<"ok", 3, 2>>
  /\ sortPerm \in Permutations(1..Cardinality(SidecarFiles))
  /\ ((\A s \in SidecarFiles : sidecars[s].kind = "object"
                                  => sidecars[s].uploadDate # InvalidDate)
       \/ \E s \in SidecarFiles : sidecars[s].kind # "object") => sortPerm = Identity
  \* BASE_PATH holds the output file; sidecars lie under it
  /\ outDirExists \in BOOLEAN
  /\ (\E s \in SidecarFiles : sidecars[s].kind # "absent") => outDirExists
  /\ indexFile = <<>>
  /\ RunStart

Init == InitGame \/ InitUser

\* =============================================================== actions
\* new Date(): the wall clock does not run backwards
Now == clock..MaxClock

\* process.exit(code), or the script running to its end (code 0)
Exit(code) == pc' = "exited" /\ exitCode' = code

\* ---- build-game-asset-index.js, buildImageIndexes ----------------------
\* lines 161-168
GameCheckRoot ==
  /\ builder = "game" /\ pc = "start"
  /\ IF cdnExists THEN pc' = "scan" /\ UNCHANGED exitCode ELSE Exit(1)
  /\ UNCHANGED <<tree, run, clock, outDirExists, indexFile, imageFiles, metadataFiles,
                 idx, images, processed, skipped, errors, written, atStart, firstRun>>

\* a variant without the early exit on an empty scan
GameScanNoEarlyExit ==
  /\ builder = "game" /\ pc = "scan"
  /\ imageFiles' = getImagesInDirectory(CDN_DIR)
  /\ pc' = "loop" /\ UNCHANGED exitCode
  /\ images' = <<>> /\ processed' = 0 /\ skipped' = 0 /\ idx' = 1
  /\ UNCHANGED <<tree, run, clock, outDirExists, indexFile, metadataFiles, errors,
                 written, atStart, firstRun>>

\* lines 170-182
GameScan ==
  /\ builder = "game" /\ pc = "scan"
  /\ imageFiles' = getImagesInDirectory(CDN_DIR)
  /\ IF Len(imageFiles') = 0 THEN Exit(0) ELSE pc' = "loop" /\ UNCHANGED exitCode
  /\ images' = <<>> /\ processed' = 0 /\ skipped' = 0 /\ idx' = 1
  /\ UNCHANGED <<tree, run, clock, outDirExists, indexFile, metadataFiles, errors,
                 written, atStart, firstRun>>

\* fs.stat(fullPath) throws
StatThrows(fullPath) == fileStat[fullPath] # "ok"

\* a variant without the catch: the rejection reaches the top-level handler
GameProcessItemNoCatch ==
  /\ builder = "game" /\ pc = "loop" /\ idx <= Len(imageFiles)
  /\ LET fullPath == imageFiles[idx]
     IN IF StatThrows(fullPath)
          THEN Exit(1) /\ UNCHANGED <<images, processed, idx>>
          ELSE /\ images' = Append(images, GameEntry(fullPath))
               /\ processed' = processed + 1
               /\ idx' = idx + 1
               /\ UNCHANGED <<pc, exitCode>>
  /\ UNCHANGED <<tree, run, clock, outDirExists, indexFile, imageFiles, skipped,
                 metadataFiles, errors, written, atStart, firstRun>>

\* lines 184-234: one iteration of the loop, its try and its catch
GameProcessItem ==
  /\ builder = "game" /\ pc = "loop" /\ idx <= Len(imageFiles)
  /\ LET fullPath == imageFiles[idx]
     IN IF StatThrows(fullPath)
          THEN skipped' = skipped + 1 /\ UNCHANGED <<images, processed>>
          ELSE /\ images' = Append(images, GameEntry(fullPath))
               /\ processed' = processed + 1
               /\ UNCHANGED skipped
  /\ idx' = idx + 1
  /\ UNCHANGED <<tree, run, pc, exitCode, clock, outDirExists, indexFile, imageFiles,
                 metadataFiles, errors, written, atStart, firstRun>>

\* lines 236-265: the index document, mkdir -p, writeFile
GameWriteIndex ==
  /\ builder = "game" /\ pc = "loop" /\ idx > Len(imageFiles)
  /\ \E now \in Now :
        /\ clock' = now
        /\ indexFile' = << GameIndex(images, now) >>
  /\ outDirExists' = TRUE
  /\ written' = TRUE
  /\ Exit(0)
  /\ UNCHANGED <<tree, run, imageFiles, metadataFiles, idx, images, processed, skipped,
                 errors, atStart, firstRun>>

\* ---- generate-image-index.js, generateIndex ----------------------------
\* lines 22-42: the glob; with no match the empty index is written, and
\* writeFileSync throws when BASE_PATH does not exist (exit code 1)
UserScan ==
  /\ builder = "user" /\ pc = "start"
  /\ metadataFiles' = SelectSeq(GlobOrder, LAMBDA s : sidecars[s].kind # "absent")
  /\ IF Len(metadataFiles') = 0
       THEN IF outDirExists
              THEN /\ \E now \in Now :
                        clock' = now /\ indexFile' = << EmptyIndex(now) >>
                   /\ written' = TRUE
                   /\ Exit(0)
              ELSE Exit(1) /\ UNCHANGED <<clock, indexFile, written>>
       ELSE pc' = "loop" /\ UNCHANGED <<exitCode, clock, indexFile, written>>
  /\ images' = <<>> /\ processed' = 0 /\ errors' = 0 /\ idx' = 1
  /\ UNCHANGED <<tree, run, outDirExists, imageFiles, skipped, atStart, firstRun>>

\* the entry reads the clock only when the sidecar carries neither date
ReadsClock(metaFile) ==
  Or(sidecars[metaFile].uploadDate, sidecars[metaFile].uploadedAt) = Undefined

\* lines 44-105: one iteration of the loop, its try and its catch
UserProcessItem ==
  /\ builder = "user" /\ pc = "loop" /\ idx <= Len(metadataFiles)
  /\ LET metaFile == metadataFiles[idx]
     IN IF BodyThrows(metaFile)
          THEN errors' = errors + 1 /\ UNCHANGED <<images, processed, clock>>
          ELSE /\ \E now \in (IF ReadsClock(metaFile) THEN Now ELSE {clock}) :
                     /\ clock' = now
                     /\ images' = Append(images, UserEntry(metaFile, now))
               /\ processed' = processed + 1
               /\ UNCHANGED errors
  /\ idx' = idx + 1
  /\ UNCHANGED <<tree, run, pc, exitCode, outDirExists, indexFile, imageFiles,
                 metadataFiles, skipped, written, atStart, firstRun>>

\* lines 107-143: sort, category buckets, the index document, writeFileSync
UserAssemble ==
  /\ builder = "user" /\ pc = "loop" /\ idx > Len(metadataFiles)
  /\ images' = SortImages(images, sortPerm)
  /\ \E now \in Now :
        /\ clock' = now
        /\ indexFile' = << UserIndex(images', ByCategory(images'), now) >>
  /\ written' = TRUE
  /\ Exit(0)
  /\ UNCHANGED <<tree, run, outDirExists, imageFiles, metadataFiles, idx, processed,
                 skipped, errors, atStart, firstRun>>

\* ---- the second invocation, against the tree as the first one left it ---
Rerun ==
  /\ pc = "exited" /\ run = 1
  /\ run' = 2
  /\ firstRun' = << [exitCode |-> exitCode, written |-> written, index |-> indexFile] >>
  /\ pc' = "start" /\ exitCode' = -1
  /\ imageFiles' = <<>> /\ metadataFiles' = <<>> /\ idx' = 1 /\ images' = <<>>
  /\ processed' = 0 /\ skipped' = 0 /\ errors' = 0 /\ written' = FALSE
  /\ atStart' = <<outDirExists, indexFile>>
  /\ UNCHANGED <<tree, clock, outDirExists, indexFile>>

Next ==
  \/ GameCheckRoot
  \/ GameScan
  \/ GameProcessItem
  \/ GameWriteIndex
  \/ UserScan
  \/ UserProcessItem
  \/ UserAssemble
  \/ Rerun

Spec == Init /\ [][Next]_vars


\* ================================================================= claims
\* the document in the output file
Doc == indexFile[1]

\* the files or sidecars the running script discovered
Discovered == IF builder = "game" THEN imageFiles ELSE metadataFiles

\* the skipped/errors counter of the running script
Failures == IF builder = "game" THEN skipped ELSE errors

\* whether the loop body throws for the i-th discovered item
ItemFails(i) ==
  IF builder = "game" THEN fileStat[imageFiles[i]] # "ok"
  ELSE sidecars[metadataFiles[i]].kind \notin {"object"}

\* C1: every index document a run writes, by either builder and on the
\* empty-index branch, has totalImages equal to the length of its images
\* list, whatever items failed before the write.
C1_TotalImages ==
  written => /\ indexFile # <<>>
             /\ Doc.totalImages = Len(Doc.images)
             /\ Len(Doc.images) = Len(images)

\* a game-asset index written after both a skipped and an indexed file
C1_Witness ==
  builder = "game" /\ written /\ skipped > 0 /\ Len(Doc.images) > 0

\* the number of entries of imgs whose id is id
CountId(imgs, id) == Cardinality({ i \in 1..Len(imgs) : imgs[i].id = id })

\* the number of positions of the bucket that hold id
CountIn(bucket, id) == Cardinality({ i \in 1..Len(bucket) : bucket[i] = id })

\* C2: in every user-content index written, each entry's category is a key
\* of byCategory whose bucket holds the entry's id exactly once, and every id
\* in a bucket is the id of exactly one entry of images.
C2_BucketsMatchEntries ==
  (builder = "user" /\ written) =>
     /\ \A i \in 1..Len(Doc.images) :
           /\ Doc.images[i].category \in DOMAIN Doc.byCategory
           /\ CountIn(Doc.byCategory[Doc.images[i].category], Doc.images[i].id) = 1
     /\ \A c \in DOMAIN Doc.byCategory :
           \A k \in 1..Len(Doc.byCategory[c]) :
              CountId(Doc.images, Doc.byCategory[c][k]) = 1

\* a.uploadDate >= b.uploadDate as dates: false when either is not a date
DateGE(a, b) == ~IsNaN(a) /\ ~IsNaN(b) /\ a >= b

\* C3: in every user-content index written, adjacent entries of images are
\* in newest-first order of uploadDate, for any dates the sidecars carry.
C3_NewestFirst ==
  (builder = "user" /\ written) =>
     \A i \in 1..(Len(Doc.images) - 1) :
        DateGE(Doc.images[i].uploadDate, Doc.images[i + 1].uploadDate)

\* C4: two runs in succession against the unchanged tree write the same
\* images list, entry for entry and field for field.
C4_SameImagesTwice ==
  (run = 2 /\ pc = "exited" /\ written /\ firstRun[1].written) =>
     Doc.images = firstRun[1].index[1].images

C6_EmptyIndexWritten ==
  (builder = "user" /\ pc = "exited" /\ Len(images) = 0) =>
     /\ exitCode = 0 /\ written /\ indexFile # <<>>
     /\ Doc.version = "1.0" /\ Doc.totalImages = 0
     /\ Doc.images = <<>> /\ DOMAIN Doc.byCategory = {}

\* C7: a game-asset run whose scan root exists and whose scan finds no
\* image exits with code 0 and leaves the output directory and the index
\* file as it found them; with no scan root it exits with code 1, also
\* without writing.
C7_NoWriteOnEmptyScan ==
  (builder = "game" /\ pc = "exited" /\ Len(imageFiles) = 0) =>
     /\ exitCode = IF cdnExists THEN 0 ELSE 1
     /\ ~written
     /\ <<outDirExists, indexFile>> = atStart

\* an empty scan of an existing root that holds an unreadable directory
\* with an image in it, beside an index file of an earlier invocation
C7_Witness ==
  /\ builder = "game" /\ pc = "exited" /\ run = 1 /\ cdnExists /\ exitCode = 0
  /\ Len(imageFiles) = 0
  /\ \E f \in GameFiles : fileStat[f] = "ok" /\ f # <<"icons", "notes.txt">>
  /\ indexFile = <<StaleGameIndex>>

\* the entries of imgs whose path is p
EntriesAt(imgs, p) == { i \in 1..Len(imgs) : imgs[i].path = p }

\* the extension of a file name is svg in some letter case
IsSvgName(name) == name \in { "logo.SVG", "logo.svg" }

\* C8: in every game-asset index written, an svg entry has no dimensions;
\* an entry has dimensions only if the decode succeeded with non-zero width
\* and height, and then carries that pair; and a file whose decode fails
\* still has its entry.
C8_DimensionsOnlyWhenDecoded ==
  (builder = "game" /\ written) =>
     /\ \A i \in 1..Len(Doc.images) :
           LET e == Doc.images[i]
               m == sharpOf[e.path]
           IN /\ IsSvgName(e.filename) => e.dimensions = <<>>
              /\ e.dimensions # <<>> =>
                    /\ m[1] = "ok" /\ m[2] # 0 /\ m[3] # 0
                    /\ e.dimensions = <<m[2], m[3]>>
     /\ \A k \in 1..Len(imageFiles) :
           fileStat[imageFiles[k]] = "ok" =>
              Cardinality(EntriesAt(Doc.images, imageFiles[k])) = 1

\* an index holding an svg entry the decoder would have measured, an entry
\* whose decode threw and an entry whose decode gave a zero width
C8_Witness ==
  /\ builder = "game" /\ written
  /\ \E i, j \in 1..Len(Doc.images) :
        /\ IsSvgName(Doc.images[i].filename)
        /\ sharpOf[Doc.images[i].path] = <<"ok", 3, 2>>
        /\ Doc.images[i].dimensions = <<>>
        /\ sharpOf[Doc.images[j].path] = <<"throw">>
  /\ \E i \in 1..Len(Doc.images) : sharpOf[Doc.images[i].path] = <<"ok", 0, 2>>

\* C9: in every game-asset index written, an entry's category is the first
\* directory segment of its path relative to the scan root, and
\* "uncategorized" for a file lying directly in the scan root.
C9_CategoryIsFirstDirectory ==
  (builder = "game" /\ written) =>
     \A i \in 1..Len(Doc.images) :
        LET e == Doc.images[i]
        IN e.category = IF Len(e.path) > 1 THEN e.path[1] ELSE "uncategorized"

\* the extensions other than webp with a file beside the sidecar
NonWebp(metaFile) == siblings[metaFile] \ {"webp"}

\* The entries built so far, matched to the sidecars that Yields says yield
\* one: the j-th entry belongs to the j-th such sidecar, its path is a
\* non-webp file when one exists, else the webp file, else null, and with a
\* null path its filesize is 0 and dimensions the sidecar lacks are 0 x 0.
EntryPerSidecar(Yields(_)) ==
  LET seen == SubSeq(metadataFiles, 1, idx - 1)
      src == SelectSeq(seen, Yields)
  IN /\ Len(images) = Len(src)
     /\ \A j \in 1..Len(src) :
           LET s == src[j]
               e == images[j]
           IN /\ e.id = ImageId(s)
              /\ NonWebp(s) # {} => \E x \in NonWebp(s) : e.path = Append(s, x)
              /\ (NonWebp(s) = {} /\ "webp" \in siblings[s]) => e.path = Append(s, "webp")
              /\ siblings[s] = {} =>
                    /\ e.path = <<>>
                    /\ e.filesize = 0
                    /\ DimensionsMissing(sidecars[s].dimensions) => e.dimensions = <<0, 0>>

\* JSON.parse returns a value
Parses(s) == sidecars[s].kind \in {"null", "object"}

\* JSON.parse returns a value other than null
ParsesNonNull(s) == sidecars[s].kind = "object"

\* C10 as stated: every sidecar that parses yields exactly one entry, with
\* the path, filesize and dimensions described above.
C10_EverySidecarThatParses ==
  (builder = "user" /\ pc = "loop") => EntryPerSidecar(Parses)

\* C10 as amended: every sidecar that parses to a value other than null
\* yields exactly one entry, with the path, filesize and dimensions
\* described above.
C10_EveryNonNullSidecar ==
  (builder = "user" /\ pc = "loop") => EntryPerSidecar(ParsesNonNull)

\* the loop has ended with an entry for a sidecar that has no image beside
\* it and no usable dimensions, and one for a sidecar beside its jpg file
C10_Witness ==
  /\ builder = "user" /\ pc = "loop" /\ idx > Len(metadataFiles)
  /\ \E j \in 1..Len(images) :
        /\ images[j].path = <<>> /\ images[j].filesize = 0
        /\ images[j].dimensions = <<0, 0>>
  /\ \E s \in SidecarFiles : sidecars[s].kind = "object" /\ siblings[s] = {"jpg"}

\* the directories a file lies in, from the scan root down to its own
Ancestors(f) == { SubSeq(f, 1, n) : n \in 0..(Len(f) - 1) }

\* the names whose extension is jpg, jpeg, png, webp, gif or svg in some
\* letter case
AllowListedName(name) == name \in { "fire.png", "logo.SVG", "pic.jpg" }

\* the files of the tree that the scan is to return
Scannable ==
  { f \in GameFiles : /\ fileStat[f] # "absent"
                      /\ AllowListedName(f[Len(f)])
                      /\ Ancestors(f) \cap unreadable = {} }

\* C11: whatever directories are unreadable, the scan does not fail the
\* run and returns exactly the files with an allow-listed extension whose
\* directories, from the root down, are all readable, each once: an
\* unreadable directory contributes nothing, its readable siblings are
\* scanned in full, and an unreadable root gives the empty result (exit 0).
C11_ScanOfReadableDirectories ==
  (builder = "game" /\ cdnExists /\ pc \in {"loop", "exited"}) =>
     /\ { imageFiles[i] : i \in 1..Len(imageFiles) } = Scannable
     /\ Len(imageFiles) = Cardinality(Scannable)
     /\ pc = "exited" => exitCode = 0

\* a scan that passed an unreadable directory holding an image and a file
\* that is no image in a readable one, and returned the image of a readable
\* sibling directory two levels down
C11_Witness ==
  /\ builder = "game" /\ pc = "loop"
  /\ unreadable = { <<"icons">> }
  /\ fileStat[<<"icons", "logo.SVG">>] = "ok"
  /\ fileStat[<<"icons", "notes.txt">>] = "ok"
  /\ \E i \in 1..Len(imageFiles) : imageFiles[i] = <<"spirits", "rare", "pic.jpg">>

=============================================================================
